---- MODULE Spec2Model ----
(***************************************************************************)
(* Model of the qp framing codec (container.go): write, DecodeHdr,         *)
(* Codec.Decode and Codec.Encode over a byte stream.                       *)
(*                                                                         *)
(* TLC's integers are 32-bit signed, so a Go uint32 is kept as a record of *)
(* two 16-bit halves [hi, lo]; its arithmetic is modulo 2^32.              *)
(***************************************************************************)
EXTENDS Integers, Sequences, FiniteSets, TLC

\* ---- bounds of the model ------------------------------------------------
\* longest arbitrary input stream handed to the decoder (SpecDec)
MaxStream == 6
\* longest data field of a Raw message handed to Encode
MaxBody == 2
\* number of Encode calls in one run
MaxMsgs == 2
\* number of Write calls of one write loop the model follows
MaxCalls == 6

\* ---- program constants --------------------------------------------------
\* size of the frame header: 4 bytes of size and 1 byte of type
HeaderSize == 5

\* byte values the arbitrary input streams are drawn from
ByteVals == {0, 1, 5, 6, 255}
\* byte values of the data field of an encoded Raw message
MsgBytes == {0, 7}
\* tags of encoded Tagged messages (16 bit)
TagVals == {1, 65535}

\* 2^16: a uint32 is kept as two halves below it
Half == 256 * 256

\* ---- uint32 -------------------------------------------------------------
\* uint32(n) of a small non-negative int n
U32(n) == [hi |-> (n \div Half) % Half, lo |-> n % Half]

\* v - k on uint32, k a small constant: wraps around below zero
U32Sub(v, k) ==
    IF v.lo >= k
    THEN [hi |-> v.hi, lo |-> v.lo - k]
    ELSE [hi |-> (v.hi + Half - 1) % Half, lo |-> v.lo + Half - k]

\* n < int(v) for an int n in 0..65535 (64-bit int: the conversion keeps v)
IntLess(n, v) == v.hi > 0 \/ n < v.lo

\* n == int(v) for an int n in 0..65535
IntEq(n, v) == v.hi = 0 /\ v.lo = n

\* mutant: the bytes taken highest first (binary.BigEndian.Uint32)
BigEndianUint32(b) ==
    [lo |-> b[4] + 256 * b[3], hi |-> b[2] + 256 * b[1]]

\* binary.LittleEndian.Uint32(b): b[0] | b[1]<<8 | b[2]<<16 | b[3]<<24
LittleEndianUint32(b) ==
    [lo |-> b[1] + 256 * b[2], hi |-> b[3] + 256 * b[4]]

\* binary.LittleEndian.PutUint32(h, v): the 4 bytes of v, lowest first
LittleEndianPutUint32(v) ==
    << v.lo % 256, (v.lo \div 256) % 256, v.hi % 256, (v.hi \div 256) % 256 >>

\* ---- messages and the registry -------------------------------------------
\* the nil Message
Nil == [variant |-> "nil", tag |-> 0, data |-> << >>]

Raw(d) == [variant |-> "Raw", tag |-> 0, data |-> d]
Tagged(t) == [variant |-> "Tagged", tag |-> t, data |-> << >>]
Alien == [variant |-> "Alien", tag |-> 0, data |-> << >>]
Broken == [variant |-> "Broken", tag |-> 0, data |-> << >>]

\* sequences over S of length at most n
SeqUpTo(S, n) == UNION { [1..k -> S] : k \in 0..n }

\* the messages handed to Encode
Messages ==
    { Raw(d) : d \in SeqUpTo(MsgBytes, MaxBody) }
        \cup { Tagged(t) : t \in TagVals } \cup { Alien, Broken }

\* Codec.M2MT: the type id of a message, or an error for an unknown variant
M2MT(m) ==
    CASE m.variant = "Raw" -> [mt |-> 1, err |-> "nil"]
      [] m.variant = "Tagged" -> [mt |-> 5, err |-> "nil"]
      [] m.variant = "Broken" -> [mt |-> 6, err |-> "nil"]
      [] OTHER -> [mt |-> 0, err |-> "ErrUnknownType"]

\* Codec.MT2M: a fresh empty message of the type, or an error
MT2M(mt) ==
    CASE mt = 1 -> [msg |-> Raw(<< >>), err |-> "nil"]
      [] mt = 5 -> [msg |-> Tagged(0), err |-> "nil"]
      [] OTHER -> [msg |-> Nil, err |-> "ErrUnknownType"]

\* Message.MarshalBinary
MarshalBinary(m) ==
    CASE m.variant = "Raw" -> [b |-> m.data, err |-> "nil"]
      [] m.variant = "Tagged" ->
            [b |-> << m.tag % 256, m.tag \div 256 >>, err |-> "nil"]
      [] OTHER -> [b |-> << >>, err |-> "ErrMarshal"]

\* Message.UnmarshalBinary on the empty message m
UnmarshalBinary(m, b) ==
    CASE m.variant = "Raw" -> [msg |-> Raw(b), err |-> "nil"]
      [] m.variant = "Tagged" ->
            IF Len(b) < 2
            THEN [msg |-> m, err |-> "ErrPayloadTooShort"]
            ELSE [msg |-> Tagged(b[1] + 256 * b[2]), err |-> "nil"]
      [] OTHER -> [msg |-> m, err |-> "ErrPayloadTooShort"]

\* ---- reading -------------------------------------------------------------
\* mutant: one r.Read(buf) in place of io.ReadFull: a short read is no error
ReadOnce(data, pos, fail, want) ==
    LET avail == Len(data) - pos
        n == IF IntLess(avail, want) THEN avail ELSE want.lo
    IN  [n |-> n,
         b |-> SubSeq(data, pos + 1, pos + n),
         err |-> IF n > 0 \/ ~IntLess(n, want) THEN "nil" ELSE fail]

\* io.ReadFull(r, buf) with len(buf) = want (a uint32), on a reader that holds
\* data from offset pos on and answers fail once the data is used up
ReadFull(data, pos, fail, want) ==
    LET avail == Len(data) - pos
        n == IF IntLess(avail, want) THEN avail ELSE want.lo
    IN  [n |-> n,
         b |-> SubSeq(data, pos + 1, pos + n),
         err |-> IF ~IntLess(n, want) THEN "nil"
                 ELSE IF fail # "EOF" THEN fail
                 ELSE IF n = 0 THEN "EOF" ELSE "ErrUnexpectedEOF"]

\* mutant: the type taken from b[3], the last byte of the size
DecodeHdrTypeOffByOne(data, pos, fail) ==
    LET rf == ReadFull(data, pos, fail, U32(5))
    IN  IF rf.n < 5
        THEN [size |-> U32(0), mt |-> 0, err |-> rf.err, n |-> rf.n]
        ELSE [size |-> LittleEndianUint32(SubSeq(rf.b, 1, 4)),
              mt |-> rf.b[4], err |-> rf.err, n |-> rf.n]

\* DecodeHdr(r): size, message type, error; n is the number of bytes consumed
DecodeHdr(data, pos, fail) ==
    LET rf == ReadFull(data, pos, fail, U32(5))
    IN  IF rf.n < 5
        THEN [size |-> U32(0), mt |-> 0, err |-> rf.err, n |-> rf.n]
        ELSE [size |-> LittleEndianUint32(SubSeq(rf.b, 1, 4)),
              mt |-> rf.b[5], err |-> rf.err, n |-> rf.n]

\* mutant: the header taken to be its 4 size bytes only
BodySizeOffByOne(size) == U32Sub(size, HeaderSize - 1)

\* the length of the body buffer Decode allocates: size -= HeaderSize
BodySize(size) == U32Sub(size, HeaderSize)

\* what Decode returns when it stops before reading a body
NoBody(h, err) ==
    [msg |-> Nil, err |-> err, n |-> h.n, hdr |-> h,
     bodyRead |-> FALSE, bodyReq |-> U32(0)]

\* what Decode returns after the body read
AfterBody(h, size, rf, msg, err) ==
    [msg |-> msg, err |-> err, n |-> h.n + rf.n, hdr |-> h,
     bodyRead |-> TRUE, bodyReq |-> size]

\* mutant: the message handed back together with the error
UnmarshalledKeepMsg(m, b) ==
    LET u == UnmarshalBinary(m, b)
    IN  [msg |-> u.msg, err |-> u.err]

\* the end of Decode: m.UnmarshalBinary(b), then nil and the error, or m and nil
Unmarshalled(m, b) ==
    LET u == UnmarshalBinary(m, b)
    IN  IF u.err # "nil" THEN [msg |-> Nil, err |-> u.err]
        ELSE [msg |-> u.msg, err |-> "nil"]

\* mutant: the type resolved before the body is read
CodecDecodeResolveFirst(data, pos, fail) ==
    LET h == DecodeHdr(data, pos, fail)
    IN  IF h.err # "nil" THEN NoBody(h, h.err)
        ELSE
        LET r == MT2M(h.mt)
        IN  IF r.err # "nil" THEN NoBody(h, r.err)
            ELSE
            LET size == BodySize(h.size)
                rf == ReadFull(data, pos + h.n, fail, size)
            IN  IF rf.err # "nil" THEN AfterBody(h, size, rf, Nil, rf.err)
                ELSE IF ~IntEq(rf.n, size)
                THEN AfterBody(h, size, rf, Nil, "short read")
                ELSE
                LET u == Unmarshalled(r.msg, rf.b)
                IN  AfterBody(h, size, rf, u.msg, u.err)

\* Codec.Decode(r): the message and error returned, the bytes consumed, the
\* header decoded and the body read that was made
CodecDecode(data, pos, fail) ==
    LET h == DecodeHdr(data, pos, fail)
    IN  IF h.err # "nil" THEN NoBody(h, h.err)
        ELSE
        LET size == BodySize(h.size)
            rf == ReadFull(data, pos + h.n, fail, size)
        IN  IF rf.err # "nil" THEN AfterBody(h, size, rf, Nil, rf.err)
            ELSE IF ~IntEq(rf.n, size)
            THEN AfterBody(h, size, rf, Nil, "short read")
            ELSE
            LET r == MT2M(h.mt)
            IN  IF r.err # "nil" THEN AfterBody(h, size, rf, Nil, r.err)
                ELSE
                LET u == Unmarshalled(r.msg, rf.b)
                IN  AfterBody(h, size, rf, u.msg, u.err)

\* ---- state ---------------------------------------------------------------
VARIABLES
    buf,      \* the bytes of the stream: what the writer accepted so far
    rpos,     \* the reader's offset in buf
    rfail,    \* what the reader answers once buf is used up: "EOF" or "EIO"
    wkind,    \* the writer: "buffer" (accepts all) or "chunked"
    epc,      \* Encode's position: "idle", "hdr" or "body"
    emsg,     \* the message being encoded
    ehdr,     \* its header h
    ebody,    \* its body b
    written,  \* write's variable written
    calls,    \* Write calls made by the running write loop
    partial,  \* whether a Write of the running Encode accepted less than offered
    eret,     \* what the last Encode returned: "none", "nil" or an error
    sent,     \* the messages Encode returned nil for, in order
    nenc,     \* the number of Encode calls made
    last,     \* the last Decode or DecodeHdr call: its start and its result
    decoded   \* the messages Decode returned, in order

vars == << buf, rpos, rfail, wkind, epc, emsg, ehdr, ebody, written, calls,
           partial, eret, sent, nenc, last, decoded >>

encVars ==
    << epc, emsg, ehdr, ebody, written, calls, partial, eret, sent, nenc >>

NoCall ==
    [op |-> "none", pos0 |-> 0, res |-> NoBody(DecodeHdr(<< >>, 0, "EOF"), "nil")]

\* ---- decoding actions ----------------------------------------------------
\* a call of Codec.Decode on the stream, by a caller that is not encoding
Decode ==
    /\ epc = "idle"
    /\ LET res == CodecDecode(buf, rpos, rfail)
       IN  /\ last' = [op |-> "Decode", pos0 |-> rpos, res |-> res]
           /\ rpos' = rpos + res.n
           /\ decoded' = IF res.err = "nil" THEN Append(decoded, res.msg)
                         ELSE decoded
    /\ UNCHANGED << buf, rfail, wkind, encVars >>

\* a direct call of DecodeHdr on the stream
DecodeHdrCall ==
    /\ epc = "idle"
    /\ LET h == DecodeHdr(buf, rpos, rfail)
       IN  /\ last' = [op |-> "DecodeHdr", pos0 |-> rpos, res |-> NoBody(h, h.err)]
           /\ rpos' = rpos + h.n
    /\ UNCHANGED << buf, rfail, wkind, encVars, decoded >>

EncIdle ==
    /\ epc = "idle" /\ emsg = Nil /\ ehdr = << >> /\ ebody = << >>
    /\ written = 0 /\ calls = 0 /\ partial = FALSE /\ eret = "none"
    /\ sent = << >> /\ nenc = 0

\* the decoder on an arbitrary stream
InitDec ==
    /\ buf \in SeqUpTo(ByteVals, MaxStream)
    /\ rpos = 0
    /\ rfail \in {"EOF", "EIO"}
    /\ wkind = "buffer"
    /\ EncIdle
    /\ last = NoCall
    /\ decoded = << >>

NextDec == Decode \/ DecodeHdrCall

SpecDec == InitDec /\ [][NextDec]_vars

\* ---- encoding actions ----------------------------------------------------
\* mutant: the size field holds the length of the body alone
HeaderBodyLen(b, mt) ==
    LittleEndianPutUint32(U32(Len(b))) \o << mt >>

\* the 5-byte header h Encode builds for body b and type mt
Header(b, mt) ==
    LittleEndianPutUint32(U32(Len(b) + HeaderSize)) \o << mt >>

\* the slice the running write loop writes: h, then b
Cur == IF epc = "hdr" THEN ehdr ELSE ebody

\* the value of written after a Write call that accepted n bytes:
\* written, err = w.Write(b[written:])
WrittenAfter(w, n) == n

\* Encode up to its first write: M2MT, MarshalBinary, the header
EncodeCall(m) ==
    /\ epc = "idle"
    /\ nenc < MaxMsgs
    /\ nenc' = nenc + 1
    /\ LET t == M2MT(m)
           mb == MarshalBinary(m)
       IN  IF t.err # "nil" \/ mb.err # "nil"
           THEN /\ eret' = IF t.err # "nil" THEN t.err ELSE mb.err
                /\ UNCHANGED << epc, emsg, ehdr, ebody >>
           ELSE /\ epc' = "hdr"
                /\ emsg' = m
                /\ ehdr' = Header(mb.b, t.mt)
                /\ ebody' = mb.b
                /\ eret' = "none"
    /\ written' = 0
    /\ calls' = 0
    /\ partial' = FALSE
    /\ UNCHANGED << buf, rpos, rfail, wkind, sent, last, decoded >>

\* one turn of write's loop: w.Write(b[written:]) accepts n bytes, no error
WriteCall ==
    /\ epc \in {"hdr", "body"}
    /\ written < Len(Cur)
    /\ calls < MaxCalls
    /\ \E n \in 1..(Len(Cur) - written) :
        /\ wkind = "buffer" => n = Len(Cur) - written
        /\ buf' = buf \o SubSeq(Cur, written + 1, written + n)
        /\ written' = WrittenAfter(written, n)
        /\ partial' = (partial \/ n < Len(Cur) - written)
    /\ calls' = calls + 1
    /\ UNCHANGED << rpos, rfail, wkind, epc, emsg, ehdr, ebody, eret, sent,
                    nenc, last, decoded >>

\* one turn of write's loop: w.Write accepts n bytes, not all, and returns an
\* error; write and Encode return it
WriteFail ==
    /\ epc \in {"hdr", "body"}
    /\ written < Len(Cur)
    /\ wkind = "chunked"
    /\ \E n \in 0..(Len(Cur) - written - 1) :
        /\ buf' = buf \o SubSeq(Cur, written + 1, written + n)
        /\ written' = WrittenAfter(written, n)
    /\ calls' = calls + 1
    /\ epc' = "idle"
    /\ eret' = "EIO"
    /\ UNCHANGED << rpos, rfail, wkind, emsg, ehdr, ebody, partial, sent,
                    nenc, last, decoded >>

\* write(w, h) returns nil: Encode goes on to write(w, b)
HdrWritten ==
    /\ epc = "hdr"
    /\ ~(written < Len(ehdr))
    /\ epc' = "body"
    /\ written' = 0
    /\ calls' = 0
    /\ UNCHANGED << buf, rpos, rfail, wkind, emsg, ehdr, ebody, partial, eret,
                    sent, nenc, last, decoded >>

\* write(w, b) returns nil: Encode returns nil
BodyWritten ==
    /\ epc = "body"
    /\ ~(written < Len(ebody))
    /\ epc' = "idle"
    /\ eret' = "nil"
    /\ sent' = Append(sent, emsg)
    /\ UNCHANGED << buf, rpos, rfail, wkind, emsg, ehdr, ebody, written, calls,
                    partial, nenc, last, decoded >>

\* the round trip: an empty bytes.Buffer that Encode writes and Decode reads
Init ==
    /\ buf = << >>
    /\ rpos = 0
    /\ rfail = "EOF"
    /\ wkind = "buffer"
    /\ EncIdle
    /\ last = NoCall
    /\ decoded = << >>

Next ==
    \/ \E m \in Messages : EncodeCall(m)
    \/ WriteCall
    \/ HdrWritten
    \/ BodyWritten
    \/ Decode

Spec == Init /\ [][Next]_vars

\* one Encode call to a writer of either kind
InitEnc ==
    /\ buf = << >>
    /\ rpos = 0
    /\ rfail = "EOF"
    /\ wkind \in {"buffer", "chunked"}
    /\ EncIdle
    /\ last = NoCall
    /\ decoded = << >>

EncodeOnce(m) == nenc = 0 /\ EncodeCall(m)

NextEnc ==
    \/ \E m \in Messages : EncodeOnce(m)
    \/ WriteCall
    \/ WriteFail
    \/ HdrWritten
    \/ BodyWritten

SpecEnc == InitEnc /\ [][NextEnc]_vars

\* ---- properties ----------------------------------------------------------
IsPrefix(a, b) == Len(a) <= Len(b) /\ a = SubSeq(b, 1, Len(a))

\* the last call was Codec.Decode and its header read gave 5 bytes
DecodedHdr == last.op = "Decode" /\ last.res.hdr.err = "nil"

\* the bytes the stream held at the start of the last call
AvailAtCall == Len(buf) - last.pos0

\* the declared total size of the last header is below the header size
SizeBelowHdr == last.res.hdr.size.hi = 0 /\ last.res.hdr.size.lo < 5

\* the whole frame the last header declares was on the stream
FrameAvailable ==
    /\ DecodedHdr
    /\ ~SizeBelowHdr
    /\ last.res.hdr.size.hi = 0
    /\ last.res.hdr.size.lo <= AvailAtCall

\* C1: a header whose total_size is below 5 makes Decode fail with an
\* invalid-frame error, with no body read and nothing consumed after the 5
\* header bytes.
C1_UnderflowRejected ==
    (DecodedHdr /\ SizeBelowHdr) =>
        /\ last.res.err = "InvalidFrame"
        /\ ~last.res.bodyRead
        /\ rpos = last.pos0 + 5

\* C2: while Encode runs on a writer that accepts Writes partially and returns
\* no error, the bytes accepted are a prefix of header ++ body, and they are
\* header ++ body once Encode has returned nil.
C2_PartialWriteCompletion ==
    (nenc = 1 /\ eret \in {"none", "nil"}) =>
        /\ IsPrefix(buf, ehdr \o ebody)
        /\ eret = "nil" => buf = ehdr \o ebody

\* C3: a Decode that follows Encodes of registered messages into a buffer
\* succeeds and returns the next message encoded, equal field for field and
\* of the same type id.
C3_RoundTrip ==
    [][(last' # last /\ Len(decoded) < Len(sent)) =>
        /\ last'.res.err = "nil"
        /\ last'.res.msg = sent[Len(decoded) + 1]
        /\ last'.res.hdr.mt = M2MT(sent[Len(decoded) + 1]).mt
        /\ decoded' = Append(decoded, sent[Len(decoded) + 1])]_vars

C3_Witness ==
    /\ Len(decoded) = 2
    /\ decoded = sent
    /\ decoded[1] = Tagged(65535)
    /\ decoded[2] = Raw(<< 7, 0 >>)
    /\ last.res.msg = Raw(<< 7, 0 >>)

\* C4: a whole frame of a type the registry does not know makes Decode return
\* the unknown-type error and no message, having consumed exactly total_size
\* bytes.
C4_UnknownTypeConsumesFrame ==
    (FrameAvailable /\ MT2M(last.res.hdr.mt).err # "nil") =>
        /\ last.res.err = "ErrUnknownType"
        /\ last.res.msg = Nil
        /\ rpos = last.pos0 + last.res.hdr.size.lo

C4_Witness ==
    /\ FrameAvailable
    /\ last.res.hdr.mt = 255
    /\ last.res.hdr.size.lo = 6
    /\ last.res.err = "ErrUnknownType"
    /\ rpos = last.pos0 + 6

\* C5: Decode returns no message and an end-of-stream error (io.EOF or
\* io.ErrUnexpectedEOF) when the stream ends within the header, and when it
\* ends within the body of a header with total_size >= 5.
C5_ShortStream ==
    (last.op = "Decode" /\
        \/ AvailAtCall < 5
        \/ /\ DecodedHdr
           /\ ~SizeBelowHdr
           /\ IntLess(AvailAtCall, last.res.hdr.size)) =>
        /\ last.res.msg = Nil
        /\ last.res.err # "nil"
        /\ rfail = "EOF" => last.res.err \in {"EOF", "ErrUnexpectedEOF"}

C5_Witness ==
    /\ last.op = "Decode"
    /\ AvailAtCall = 5
    /\ DecodedHdr
    /\ last.res.hdr.size = U32(6)
    /\ last.res.hdr.mt = 1
    /\ last.res.err = "EOF"
    /\ last.res.msg = Nil

\* C6: an Encode whose Writes are all accepted in full and which returns nil
\* has emitted len(b)+5 as 4 little-endian bytes, the type id, then b, and
\* nothing else, the header before any body byte; an empty body of type 1
\* gives 05 00 00 00 01.
C6_FrameLayout ==
    (nenc = 1 /\ ~partial /\ eret \in {"none", "nil"}) =>
        LET b == MarshalBinary(emsg).b
            frame == << Len(b) + 5, 0, 0, 0, M2MT(emsg).mt >> \o b
        IN  /\ IsPrefix(buf, frame)
            /\ epc = "body" => Len(buf) >= 5
            /\ eret = "nil" => buf = frame
            /\ (eret = "nil" /\ emsg = Raw(<< >>)) => buf = << 5, 0, 0, 0, 1 >>

C6_Witness ==
    /\ eret = "nil"
    /\ ~partial
    /\ emsg = Raw(<< >>)
    /\ buf = << 5, 0, 0, 0, 1 >>

\* C7: Decode returns either no message and an error, or a message and no
\* error; a message is returned only after the whole body was read and
\* deserialized.
C7_AllOrNothing ==
    last.op = "Decode" =>
        /\ (last.res.msg = Nil) <=> (last.res.err # "nil")
        /\ last.res.msg # Nil =>
            /\ last.res.bodyRead
            /\ IntEq(last.res.n - 5, last.res.bodyReq)
            /\ last.res.bodyReq = U32Sub(last.res.hdr.size, 5)
            /\ last.res.msg =
                UnmarshalBinary(MT2M(last.res.hdr.mt).msg,
                    SubSeq(buf, last.pos0 + 6, last.pos0 + last.res.n)).msg

C7_Witness ==
    /\ last.op = "Decode"
    /\ last.res.bodyRead
    /\ last.res.err = "ErrPayloadTooShort"
    /\ last.res.msg = Nil

\* C8: with 5 bytes on the reader DecodeHdr returns no error, the size that
\* bytes 0..3 spell little-endian, the type of byte 4, and consumes the 5
\* bytes.
C8_HeaderDecoded ==
    (last.op # "none" /\ AvailAtCall >= 5) =>
        /\ last.res.hdr.err = "nil"
        /\ last.res.hdr.n = 5
        /\ LittleEndianPutUint32(last.res.hdr.size)
              = SubSeq(buf, last.pos0 + 1, last.pos0 + 4)
        /\ last.res.hdr.size.lo \in 0..(Half - 1)
        /\ last.res.hdr.size.hi \in 0..(Half - 1)
        /\ last.res.hdr.mt = buf[last.pos0 + 5]
        /\ last.op = "DecodeHdr" => rpos = last.pos0 + 5

C8_Witness ==
    /\ last.op = "DecodeHdr"
    /\ AvailAtCall >= 5
    /\ SubSeq(buf, last.pos0 + 1, last.pos0 + 5) = << 1, 0, 255, 255, 6 >>
    /\ last.res.hdr.size = [hi |-> 65535, lo |-> 1]
    /\ last.res.hdr.mt = 6
    /\ rpos = last.pos0 + 5

\* C9: write makes at most len(b) Write calls when every call accepts at
\* least one byte or returns an error.
C9_WriteTerminates ==
    epc \in {"hdr", "body"} => calls <= Len(Cur)

\* C10: on a stream of frames Encode wrote, a Decode advances the stream by
\* exactly the total_size of the next frame and returns its message, in wire
\* order; with every frame decoded it fails with io.EOF and consumes nothing.
C10_FrameBoundaries ==
    [][(last' # last) =>
        IF Len(decoded) < Len(sent)
        THEN LET m == sent[Len(decoded) + 1]
             IN  /\ last'.res.err = "nil"
                 /\ IntEq(rpos' - rpos, last'.res.hdr.size)
                 /\ rpos' - rpos = 5 + Len(MarshalBinary(m).b)
                 /\ rpos' <= Len(buf)
                 /\ decoded' = Append(decoded, m)
        ELSE /\ last'.res.err = "EOF"
             /\ rpos' = rpos
             /\ rpos = Len(buf)
             /\ decoded' = decoded]_vars

C10_Witness ==
    /\ Len(sent) = 2
    /\ decoded = sent
    /\ sent[1] = Raw(<< 0 >>)
    /\ sent[2] = Tagged(1)
    /\ rpos = 13
    /\ last.op = "Decode"
    /\ last.pos0 = 13
    /\ last.res.err = "EOF"

====
